---- MODULE Spec2Model ----
(***************************************************************************)
(* Model of the checkpointing core of arroyo-state:                        *)
(*   - tables/key_time_multi_map.rs : KeyTimeMultiMapCache and the         *)
(*     write-through facade KeyTimeMultiMap over a backing log;            *)
(*   - checkpoint_state.rs : CheckpointState / OperatorState.              *)
(* A SystemTime is modelled as the number of nanoseconds since UNIX_EPOCH. *)
(* A HashMap / BTreeMap is a function whose DOMAIN is the set of present   *)
(* keys, so "absent" and "present but empty" are different states.         *)
(***************************************************************************)
EXTENDS Integers, Sequences, FiniteSets, TLC

\* ---------------------------------------------------------------- bounds
MaxLog == 3         \* records in the backing log
MaxCacheOps == 4    \* calls made directly on the cache
MaxSubtasks == 2    \* parallelism of an operator is 1..MaxSubtasks
MaxCalls == 3       \* calls made on one CheckpointState

\* ------------------------------------------------------------ time format
NanosPerMicro == 1000

from_micros(ts) == ts * NanosPerMicro

to_micros(time) == time \div NanosPerMicro

UNIX_EPOCH == 0

\* --------------------------------------------------------- input domains
Keys == {"k1", "k2"}

Vals == {"a", "b"}

\* the timestamps values are stored under
Times == {from_micros(0), from_micros(1), from_micros(2)}

\* an instant after every stored timestamp
FarFuture == from_micros(3)

\* the instants used as bounds of ranges and of expiration
Instants == Times \cup {FarFuture}

\* the non-empty ranges start..end given to clear_time_range
ClearRanges == {r \in Instants \X Instants : r[1] < r[2]}

\* Option<T>: None is the empty tuple, Some(x) the one-element tuple
None == << >>

Some(x) == <<x>>

Unwrap(o) == o[1]

\* ------------------------------------------------------- map primitives
EmptyMap == << >>

Put(f, k, v) == [x \in (DOMAIN f) \cup {k} |-> IF x = k THEN v ELSE f[x]]

Del(f, k) == [x \in (DOMAIN f) \ {k} |-> f[x]]

MinOf(S) == CHOOSE x \in S : \A y \in S : x <= y

MaxOf(S) == CHOOSE x \in S : \A y \in S : x >= y

\* start..end of a Rust Range: half open, empty when start >= end
RangeContains(start, end, time) == start <= time /\ time < end

\* the elements of a finite set of integers in ascending order
RECURSIVE Ascending(_)
Ascending(S) ==
    IF S = {} THEN << >>
    ELSE LET m == MinOf(S) IN <<m>> \o Ascending(S \ {m})

\* ------------------------------------------------- KeyTimeMultiMapCache
\* a cache is [values |-> K -> (t -> Seq(V)), expirations |-> t -> SUBSET K]
DefaultCache == [values |-> EmptyMap, expirations |-> EmptyMap]

\* self.expirations.entry(t).or_default().insert(key)
BucketInsert(exp, t, key) ==
    Put(exp, t, (IF t \in DOMAIN exp THEN exp[t] ELSE {}) \cup {key})

CacheInsert(c, timestamp, key, value) ==
    LET current_entries ==
            IF key \in DOMAIN c.values THEN c.values[key] ELSE EmptyMap
    IN  IF DOMAIN current_entries = {}
        THEN [values |-> Put(c.values, key, Put(current_entries, timestamp, <<value>>)),
              expirations |-> BucketInsert(c.expirations, timestamp, key)]
        ELSE LET current_earliest == MinOf(DOMAIN current_entries) IN
             IF timestamp < current_earliest
             THEN LET current_earliest_keys ==
                          (IF current_earliest \in DOMAIN c.expirations
                           THEN c.expirations[current_earliest] ELSE {}) \ {key}
                      exp1 == IF current_earliest_keys = {}
                              THEN Del(c.expirations, current_earliest)
                              ELSE Put(c.expirations, current_earliest,
                                       current_earliest_keys)
                  IN [values |-> Put(c.values, key,
                                     Put(current_entries, timestamp, <<value>>)),
                      expirations |-> BucketInsert(exp1, timestamp, key)]
             ELSE [values |-> Put(c.values, key,
                                  Put(current_entries, timestamp,
                                      Append(IF timestamp \in DOMAIN current_entries
                                             THEN current_entries[timestamp]
                                             ELSE << >>, value))),
                   expirations |-> c.expirations]

CacheRemoveKey(c, key) ==
    [values |-> Del(c.values, key),
     expirations |-> [t \in DOMAIN c.expirations |-> c.expirations[t] \ {key}]]

CacheRemoveValue(c, timestamp, key, value) ==
    IF key \in DOMAIN c.values /\ timestamp \in DOMAIN c.values[key]
    THEN [values |-> Put(c.values, key,
                         Put(c.values[key], timestamp,
                             SelectSeq(c.values[key][timestamp],
                                       LAMBDA stored_value : stored_value # value))),
          expirations |-> c.expirations]
    ELSE c

\* keys_to_remove of expire_entries_before: self.expirations.range(..time)
KeysToRemove(c, time) ==
    UNION {c.expirations[s] : s \in {x \in DOMAIN c.expirations : x < time}}

\* the two unwrap() calls of the loop body fail for this key
ExpirePanics(c, key) ==
    \/ key \notin DOMAIN c.values
    \/ DOMAIN c.values[key] = {}

\* one iteration of the loop of expire_entries_before
ExpireKey(c, key, time) ==
    LET key_data == c.values[key] IN
    IF MaxOf(DOMAIN key_data) <= time
    THEN [values |-> Del(c.values, key), expirations |-> c.expirations]
    ELSE LET retained_data == [t \in {x \in DOMAIN key_data : x >= time} |-> key_data[t]]
             earliest_key == MinOf(DOMAIN retained_data)
         IN [values |-> Put(c.values, key, retained_data),
             expirations |-> BucketInsert(c.expirations, earliest_key, key)]

RECURSIVE ExpireKeys(_, _, _)
ExpireKeys(c, keys, time) ==
    IF keys = {} THEN c
    ELSE LET key == CHOOSE k \in keys : TRUE
         IN ExpireKeys(ExpireKey(c, key, time), keys \ {key}, time)

\* get_all_values_with_timestamps, None read as the empty sequence
RECURSIVE FlattenTimes(_, _)
FlattenTimes(key_map, times) ==
    IF times = << >> THEN << >>
    ELSE [i \in 1..Len(key_map[Head(times)]) |->
             <<Head(times), key_map[Head(times)][i]>>]
         \o FlattenTimes(key_map, Tail(times))

GetAllValuesWithTimestamps(c, key) ==
    IF key \in DOMAIN c.values
    THEN FlattenTimes(c.values[key], Ascending(DOMAIN c.values[key]))
    ELSE << >>

\* ------------------------------------------------------- backing store log
\* bincode of a key or a value: a one-element byte string holding it
encode(x) == <<x>>

decode(bytes) == bytes[1]

NoBytes == << >>

\* a DataTuple as get_data_tuples returns it; value is "" when None
DataTuple(operation, timestamp, key, value, op_key, op_value, op_timestamp, start, end) ==
    [operation |-> operation, timestamp |-> timestamp, key |-> key, value |-> value,
     op_key |-> op_key, op_value |-> op_value, op_timestamp |-> op_timestamp,
     start |-> start, end |-> end]

write_data_tuple(timestamp, key, value) ==
    DataTuple("Insert", timestamp, key, value, NoBytes, NoBytes, UNIX_EPOCH,
              UNIX_EPOCH, UNIX_EPOCH)

store_delete_key(key) ==
    DataTuple("DeleteKey", UNIX_EPOCH, key, "", encode(key), NoBytes, UNIX_EPOCH,
              UNIX_EPOCH, UNIX_EPOCH)

delete_data_value(timestamp, key, value) ==
    DataTuple("DeleteValue", timestamp, key, "", encode(key), encode(value), timestamp,
              UNIX_EPOCH, UNIX_EPOCH)

delete_time_range(key, start, end) ==
    DataTuple("DeleteTimeRange", UNIX_EPOCH, key, "", NoBytes, NoBytes, UNIX_EPOCH,
              start, end)

\* ------------------------------------------------------- from_checkpoint
\* every stored value equal to value removed
RemoveFirst_All(seq, value) ==
    LET differs(stored) == stored # value
    IN SelectSeq(seq, differs)

\* values.remove(position) for the first position holding value
RemoveFirst(seq, value) ==
    IF \E i \in 1..Len(seq) : seq[i] = value
    THEN LET position == MinOf({i \in 1..Len(seq) : seq[i] = value})
         IN SubSeq(seq, 1, position - 1) \o SubSeq(seq, position + 1, Len(seq))
    ELSE seq

\* the match on tuple.operation in the replay loop
ReplayTuple(vals, tuple) ==
    CASE tuple.operation = "Insert" ->
            LET key_map == IF tuple.key \in DOMAIN vals THEN vals[tuple.key] ELSE EmptyMap
                list == IF tuple.timestamp \in DOMAIN key_map
                        THEN key_map[tuple.timestamp] ELSE << >>
            IN Put(vals, tuple.key, Put(key_map, tuple.timestamp, Append(list, tuple.value)))
      [] tuple.operation = "DeleteKey" ->
            Del(vals, decode(tuple.op_key))
      [] tuple.operation = "DeleteValue" ->
            LET key == decode(tuple.op_key)
                value == decode(tuple.op_value)
            IN IF key \in DOMAIN vals /\ tuple.op_timestamp \in DOMAIN vals[key]
               THEN Put(vals, key,
                        Put(vals[key], tuple.op_timestamp,
                            RemoveFirst(vals[key][tuple.op_timestamp], value)))
               ELSE vals
      [] tuple.operation = "DeleteTimeRange" ->
            IF tuple.key \in DOMAIN vals
            THEN LET key_map == vals[tuple.key]
                     kept == [t \in {x \in DOMAIN key_map :
                                        ~RangeContains(tuple.start, tuple.end, x)}
                                 |-> key_map[t]]
                 IN IF DOMAIN kept = {} THEN Del(vals, tuple.key)
                    ELSE Put(vals, tuple.key, kept)
            ELSE vals
      [] OTHER -> vals

RECURSIVE Replay(_, _, _)
Replay(vals, tuples, min_valid_time) ==
    IF tuples = << >> THEN vals
    ELSE LET tuple == Head(tuples) IN
         IF tuple.timestamp < min_valid_time
         THEN Replay(vals, Tail(tuples), min_valid_time)
         ELSE Replay(ReplayTuple(vals, tuple), Tail(tuples), min_valid_time)

\* every key registered under its latest timestamp
RebuildExpirations_Latest(vals) ==
    [t \in {MaxOf(DOMAIN vals[k]) : k \in DOMAIN vals} |->
        {k \in DOMAIN vals : MaxOf(DOMAIN vals[k]) = t}]

\* the expirations index rebuilt from the replayed values
RebuildExpirations(vals) ==
    [t \in {MinOf(DOMAIN vals[k]) : k \in DOMAIN vals} |->
        {k \in DOMAIN vals : MinOf(DOMAIN vals[k]) = t}]

\* panic!("Not supported"), or unwrap() of the first timestamp of an empty map
FromCheckpointPanics(tuples, min_valid_time) ==
    \/ \E i \in 1..Len(tuples) :
            /\ tuples[i].timestamp >= min_valid_time
            /\ tuples[i].operation = "DeleteTimeKey"
    \/ \E k \in DOMAIN Replay(EmptyMap, tuples, min_valid_time) :
            DOMAIN Replay(EmptyMap, tuples, min_valid_time)[k] = {}

FromCheckpoint(tuples, min_valid_time) ==
    LET vals == Replay(EmptyMap, tuples, min_valid_time)
    IN [values |-> vals, expirations |-> RebuildExpirations(vals)]

\* min_watermark and retention_micros are u64: the model keeps U64Bits bits
U64Bits == 16

U64Modulus == 2 ^ U64Bits

\* a - b on u64: the result when it fits; otherwise the build decides, a
\* panic with overflow checks (None here) and the wrapped value without
SubU64(a, b) ==
    IF a >= b THEN {Some(a - b)}
    ELSE {None, Some((a - b) % U64Modulus)}

\* lines 128-132: the outcomes of computing min_valid_time, None a panic
MinValidTimes(min_watermark, retention_micros) ==
    IF min_watermark = None THEN {Some(UNIX_EPOCH)}
    ELSE {IF d = None THEN None ELSE Some(from_micros(Unwrap(d))) :
            d \in SubU64(Unwrap(min_watermark), retention_micros)}

\* the tuples get_data_tuples may return at a restore: every record of k1,
\* inserts and the key delete of k2, and a DeleteTimeKey record
RestoreTuples ==
    {write_data_tuple(t, "k1", v) : t \in Times, v \in Vals}
    \cup {delete_data_value(t, "k1", v) : t \in Times, v \in Vals}
    \cup {delete_time_range("k1", r[1], r[2]) : r \in ClearRanges}
    \cup {write_data_tuple(t, "k2", "a") : t \in Times}
    \cup {store_delete_key(k) : k \in Keys}
    \cup {DataTuple("DeleteTimeKey", from_micros(1), "k1", "", encode("k1"), NoBytes,
                     from_micros(1), UNIX_EPOCH, UNIX_EPOCH)}

\* operator_metadata.min_watermark and table_descriptor.retention_micros
RestoreWatermarks == {None, Some(0), Some(1), Some(2)}

Retentions == {0, 1}

\* ------------------------------------------------------- facade reads
\* key_map.range(start..end).flat_map(values); BTreeMap::range panics
\* when start > end
GetTimeRangePanics(c, key, start, end) ==
    key \in DOMAIN c.values /\ start > end

RECURSIVE ConcatLists(_, _)
ConcatLists(key_map, times) ==
    IF times = << >> THEN << >>
    ELSE key_map[Head(times)] \o ConcatLists(key_map, Tail(times))

GetTimeRange(c, key, start, end) ==
    IF key \notin DOMAIN c.values THEN << >>
    ELSE ConcatLists(c.values[key],
                     Ascending({t \in DOMAIN c.values[key] : RangeContains(start, end, t)}))

\* key_map.retain(|time, _| !(start..end).contains(time)) of clear_time_range
CacheClearTimeRange(c, key, start, end) ==
    IF key \in DOMAIN c.values
    THEN [values |-> Put(c.values, key,
                         [t \in {x \in DOMAIN c.values[key] :
                                    ~RangeContains(start, end, x)} |-> c.values[key][t]]),
          expirations |-> c.expirations]
    ELSE c

\* ------------------------------------------------------ checkpoint inputs
Operators == {"op_A", "op_B"}

UnknownOperator == "op_X"

SubtaskIndexes == 0..(MaxSubtasks - 1)

StartTimes == {1, 2}

FinishTimes == {3, 4}

Watermarks == {None, Some(1), Some(2)}

Tables == {"t"}

TableConfig == [table_type |-> "GlobalKeyValue"]

NoTables == [table_metadata |-> EmptyMap, table_configs |-> EmptyMap]

\* a table reported by the subtask, with its config
WithTable(subtask_index) ==
    [table_metadata |-> [t \in Tables |-> [subtask_index |-> subtask_index]],
     table_configs |-> [t \in Tables |-> TableConfig]]

\* a table reported by the subtask whose config is missing
WithoutConfig(subtask_index) ==
    [table_metadata |-> [t \in Tables |-> [subtask_index |-> subtask_index]],
     table_configs |-> EmptyMap]

Metadata(i, st, ft, w, tp) ==
    [subtask_index |-> i, start_time |-> st, finish_time |-> ft, watermark |-> w,
     table_metadata |-> tp.table_metadata, table_configs |-> tp.table_configs]

\* one operator is driven with every time and watermark of the input
\* domains, from every subtask
AllMetadata ==
    {Metadata(i, st, ft, w, NoTables) :
        i \in SubtaskIndexes, st \in StartTimes, ft \in FinishTimes, w \in Watermarks}

\* what subtask i reports when several operators and the UI events are in
\* play: odd subtasks start and finish later and have no watermark
MetadataOf(i, tp) ==
    IF i % 2 = 0 THEN Metadata(i, 1, 3, Some(1), tp)
    ELSE Metadata(i, 2, 4, None, tp)

SomeMetadata ==
    UNION {{MetadataOf(i, NoTables), MetadataOf(i, WithTable(i))} : i \in SubtaskIndexes}
    \cup {MetadataOf(0, WithoutConfig(0))}

EventTypes == {"StartedAlignment", "StartedCheckpointing", "FinishedOperatorSetup",
               "FinishedSync", "FinishedCommit"}

EventTimes == {1, 2}

\* the subtasks the UI events come from
EventSubtasks == {0, 1}

\* TaskCheckpointEventReq
EventReq(operator_id, subtask_index, time, event_type) ==
    [operator_id |-> operator_id, subtask_index |-> subtask_index, time |-> time,
     event_type |-> event_type]

\* TaskCheckpointCompletedReq
CompletedReq(operator_id, metadata) ==
    [operator_id |-> operator_id, metadata |-> metadata]

\* --------------------------------------------------------- OperatorState
NewOperatorState(subtasks) ==
    [subtasks |-> subtasks, subtasks_checkpointed |-> 0, start_time |-> None,
     finish_time |-> None, table_state |-> EmptyMap, watermarks |-> << >>]

EarlierOf(a, b) == IF a <= b THEN a ELSE b

LaterOf(a, b) == IF a >= b THEN a ELSE b

\* finish_subtask with start_time taken as the latest start
FinishSubtaskHead_LatestStart(os, c) ==
    [os EXCEPT
        !.subtasks_checkpointed = @ + 1,
        !.watermarks = Append(@, IF c.watermark = None THEN None
                                 ELSE Some(from_micros(Unwrap(c.watermark)))),
        !.start_time = IF @ = None THEN Some(from_micros(c.start_time))
                       ELSE Some(LaterOf(Unwrap(@), from_micros(c.start_time))),
        !.finish_time = IF @ = None THEN Some(from_micros(c.finish_time))
                        ELSE Some(LaterOf(Unwrap(@), from_micros(c.finish_time)))]

\* finish_subtask with a counter that stops at subtasks
FinishSubtaskHead_Saturating(os, c) ==
    [os EXCEPT
        !.subtasks_checkpointed = IF @ < os.subtasks THEN @ + 1 ELSE @,
        !.watermarks = Append(@, IF c.watermark = None THEN None
                                 ELSE Some(from_micros(Unwrap(c.watermark)))),
        !.start_time = IF @ = None THEN Some(from_micros(c.start_time))
                       ELSE Some(EarlierOf(Unwrap(@), from_micros(c.start_time))),
        !.finish_time = IF @ = None THEN Some(from_micros(c.finish_time))
                        ELSE Some(LaterOf(Unwrap(@), from_micros(c.finish_time)))]

\* lines 67-78 of finish_subtask: the counter, the watermark, the time bounds
FinishSubtaskHead(os, c) ==
    [os EXCEPT
        !.subtasks_checkpointed = @ + 1,
        !.watermarks = Append(@, IF c.watermark = None THEN None
                                 ELSE Some(from_micros(Unwrap(c.watermark)))),
        !.start_time = IF @ = None THEN Some(from_micros(c.start_time))
                       ELSE Some(EarlierOf(Unwrap(@), from_micros(c.start_time))),
        !.finish_time = IF @ = None THEN Some(from_micros(c.finish_time))
                        ELSE Some(LaterOf(Unwrap(@), from_micros(c.finish_time)))]

\* expect("should have metadata") fails for this table
TableConfigMissing(table_state, c, table) ==
    table \notin DOMAIN table_state /\ table \notin DOMAIN c.table_configs

\* one iteration of "for (table, table_metadata) in c.table_metadata"
UpsertTable(table_state, c, table) ==
    LET entry == IF table \in DOMAIN table_state THEN table_state[table]
                 ELSE [table_config |-> c.table_configs[table],
                       subtask_tables |-> EmptyMap]
    IN Put(table_state, table,
           [entry EXCEPT !.subtask_tables =
                Put(@, c.table_metadata[table].subtask_index, c.table_metadata[table])])

RECURSIVE UpsertTables(_, _, _)
UpsertTables(table_state, c, tables) ==
    IF tables = {} THEN table_state
    ELSE LET table == CHOOSE t \in tables : TRUE
         IN UpsertTables(UpsertTable(table_state, c, table), c, tables \ {table})

\* GlobalKeyedTable / ExpiringTimeKeyTable::merge_checkpoint_metadata: the
\* merged metadata of a table, or None when no subtask contributed
merge_checkpoint_metadata(table_config, subtask_tables) ==
    IF DOMAIN subtask_tables = {} THEN None
    ELSE Some([subtasks |-> DOMAIN subtask_tables])

into_table_metadata(state) ==
    LET merged == merge_checkpoint_metadata(state.table_config, state.subtask_tables)
    IN IF merged = None THEN None
       ELSE Some(<<state.table_config, Unwrap(merged)>>)

\* the drain of table_state when the last subtask lands
DrainTableState(table_state) ==
    LET kept == {t \in DOMAIN table_state : into_table_metadata(table_state[t]) # None}
    IN [table_configs |-> [t \in kept |-> Unwrap(into_table_metadata(table_state[t]))[1]],
        table_metadatas |-> [t \in kept |-> Unwrap(into_table_metadata(table_state[t]))[2]]]

FinishSubtaskPanics(os, c) ==
    \E table \in DOMAIN c.table_metadata : TableConfigMissing(os.table_state, c, table)

\* completion declared on the first acknowledgement
FinishSubtaskCompletes_First(os) == os.subtasks_checkpointed >= 1

\* completion declared one acknowledgement early
FinishSubtaskCompletes_Early(os) == os.subtasks <= os.subtasks_checkpointed + 1

\* completion declared on every acknowledgement from the last subtask on
FinishSubtaskCompletes_AtLeast(os) == os.subtasks <= os.subtasks_checkpointed

\* line 94 of finish_subtask
FinishSubtaskCompletes(os) == os.subtasks = os.subtasks_checkpointed

\* finish_subtask when no expect() fails: the new state and the returned Option
FinishSubtask(os, c) ==
    LET os1 == FinishSubtaskHead(os, c)
        os2 == [os1 EXCEPT !.table_state =
                    UpsertTables(@, c, DOMAIN c.table_metadata)]
    IN IF FinishSubtaskCompletes(os2)
       THEN [state |-> [os2 EXCEPT !.table_state = EmptyMap],
             returned |-> Some(DrainTableState(os2.table_state))]
       ELSE [state |-> os2, returned |-> None]

\* finish_subtask when expect("should have metadata") fails: the tables
\* visited before the failing one, in the HashMap's order, are upserted
FinishSubtaskPartial(os, c, done_tables) ==
    LET os1 == FinishSubtaskHead(os, c)
    IN [os1 EXCEPT !.table_state = UpsertTables(@, c, done_tables)]

\* the aggregation with max_watermark computed by min()
WatermarkAggregate_MinTwice(watermarks) ==
    IF \E i \in 1..Len(watermarks) : watermarks[i] = None
    THEN [min_watermark |-> None, max_watermark |-> None]
    ELSE LET micros == {to_micros(Unwrap(watermarks[i])) : i \in 1..Len(watermarks)}
         IN IF micros = {} THEN [min_watermark |-> None, max_watermark |-> None]
            ELSE [min_watermark |-> Some(MinOf(micros)),
                  max_watermark |-> Some(MinOf(micros))]

\* lines 237-253 of checkpoint_finished
WatermarkAggregate(watermarks) ==
    IF \E i \in 1..Len(watermarks) : watermarks[i] = None
    THEN [min_watermark |-> None, max_watermark |-> None]
    ELSE LET micros == {to_micros(Unwrap(watermarks[i])) : i \in 1..Len(watermarks)}
         IN IF micros = {} THEN [min_watermark |-> None, max_watermark |-> None]
            ELSE [min_watermark |-> Some(MinOf(micros)),
                  max_watermark |-> Some(MaxOf(micros))]

OperatorCheckpointMetadata(operator_id, os, drained) ==
    [operator_id |-> operator_id,
     start_time |-> to_micros(Unwrap(os.start_time)),
     finish_time |-> to_micros(Unwrap(os.finish_time)),
     min_watermark |-> WatermarkAggregate(os.watermarks).min_watermark,
     max_watermark |-> WatermarkAggregate(os.watermarks).max_watermark,
     table_checkpoint_metadata |-> drained.table_metadatas,
     table_configs |-> drained.table_configs]

\* the match of checkpoint_event from the grpc to the api event type
UiEventType(event_type) ==
    CASE event_type = "StartedAlignment" -> "AlignmentStarted"
      [] event_type = "StartedCheckpointing" -> "CheckpointStarted"
      [] event_type = "FinishedOperatorSetup" -> "CheckpointOperatorFinished"
      [] event_type = "FinishedSync" -> "CheckpointSyncFinished"
      [] event_type = "FinishedCommit" -> "CheckpointPreCommit"

\* the upsert with the task's start_time overwritten by every event
AppendUiEvent_ResetStart(details, c) ==
    LET detail == IF c.operator_id \in DOMAIN details THEN details[c.operator_id]
                  ELSE [operator_id |-> c.operator_id, start_time |-> c.time,
                        finish_time |-> None, has_state |-> FALSE, tasks |-> EmptyMap]
        task == IF c.subtask_index \in DOMAIN detail.tasks
                THEN [detail.tasks[c.subtask_index] EXCEPT !.start_time = c.time]
                ELSE [subtask_index |-> c.subtask_index, start_time |-> c.time,
                      finish_time |-> None, bytes |-> None, events |-> << >>]
        task1 == [task EXCEPT !.events =
                     Append(@, [time |-> c.time,
                                event_type |-> UiEventType(c.event_type)])]
    IN Put(details, c.operator_id,
           [detail EXCEPT !.tasks = Put(@, c.subtask_index, task1)])

\* lines 181-219 of checkpoint_event
AppendUiEvent(details, c) ==
    LET detail == IF c.operator_id \in DOMAIN details THEN details[c.operator_id]
                  ELSE [operator_id |-> c.operator_id, start_time |-> c.time,
                        finish_time |-> None, has_state |-> FALSE, tasks |-> EmptyMap]
        task == IF c.subtask_index \in DOMAIN detail.tasks
                THEN detail.tasks[c.subtask_index]
                ELSE [subtask_index |-> c.subtask_index, start_time |-> c.time,
                      finish_time |-> None, bytes |-> None, events |-> << >>]
        task1 == [task EXCEPT !.events =
                     Append(@, [time |-> c.time,
                                event_type |-> UiEventType(c.event_type)])]
    IN Put(details, c.operator_id,
           [detail EXCEPT !.tasks = Put(@, c.subtask_index, task1)])

\* ------------------------------------------------------------------ state
VARIABLES
    values,          \* KeyTimeMultiMapCache.values
    expirations,     \* KeyTimeMultiMapCache.expirations
    log,             \* the tuples of the table in the backing store, in log order
    pc,              \* the facade call in progress, "idle" between calls
    args,            \* the arguments of the call in progress
    table_size_gauge,\* TABLE_SIZE_GAUGE for this table
    cache_calls,     \* number of calls made directly on the cache
    cache_panicked,  \* an unwrap() of expire_entries_before failed
    restore,         \* the from_checkpoint call that built the cache, if any
    operators,              \* CheckpointState.operators
    operators_checkpointed, \* CheckpointState.operators_checkpointed
    operator_state,         \* CheckpointState.operator_state
    operator_details,       \* CheckpointState.operator_details
    store,           \* the OperatorCheckpointMetadata records written, in order
    result,          \* what the last call on the CheckpointState returned
    last_call,       \* the request of the last call on the CheckpointState
    reported,        \* operator -> subtask_index -> calls accepted for it
    acked,           \* operator -> the times and watermarks accepted for it
    calls            \* number of calls made on the CheckpointState

cacheVars == <<values, expirations, cache_calls, cache_panicked>>

facadeVars == <<log, pc, args, table_size_gauge>>

checkpointVars == <<operators, operators_checkpointed, operator_state,
                    operator_details, store, result, last_call, reported,
                    acked, calls>>

tableVars == <<values, expirations, log, pc, args, table_size_gauge, cache_calls,
               cache_panicked, restore>>

vars == <<values, expirations, log, pc, args, table_size_gauge, cache_calls,
          cache_panicked, restore, operators, operators_checkpointed, operator_state,
          operator_details, store, result, last_call, reported, acked,
          calls>>

cache == [values |-> values, expirations |-> expirations]

SetCache(c) == values' = c.values /\ expirations' = c.expirations

NoArgs == [timestamp |-> UNIX_EPOCH, key |-> "", value |-> "",
           start |-> UNIX_EPOCH, end |-> UNIX_EPOCH, keys |-> {}]

NoRestore == [status |-> "none", min_watermark |-> None, retention_micros |-> 0,
              min_valid_time |-> None]

NoCall == [call |-> "", operator_id |-> "", has_metadata |-> FALSE, event_type |-> "",
           subtask_index |-> 0, time |-> 0]

InitTable ==
    /\ values = EmptyMap
    /\ expirations = EmptyMap
    /\ log = << >>
    /\ pc = "idle"
    /\ args = NoArgs
    /\ table_size_gauge = 0
    /\ cache_calls = 0
    /\ cache_panicked = FALSE
    /\ restore = NoRestore

\* CheckpointState::new(.., tasks_per_operator)
New(tasks_per_operator) ==
    /\ operators = Cardinality(DOMAIN tasks_per_operator)
    /\ operators_checkpointed = 0
    /\ operator_state = [o \in DOMAIN tasks_per_operator |->
                            NewOperatorState(tasks_per_operator[o])]
    /\ operator_details = EmptyMap
    /\ store = << >>
    /\ result = ""
    /\ last_call = NoCall
    /\ reported = [o \in DOMAIN tasks_per_operator |-> [i \in SubtaskIndexes |-> 0]]
    /\ acked = [o \in DOMAIN tasks_per_operator |->
                    [start_times |-> {}, finish_times |-> {}, watermarks |-> {}]]
    /\ calls = 0

\* a coordinator for any parallelism of the operators, and an empty table
Init ==
    /\ InitTable
    /\ \E tasks_per_operator \in [Operators -> 1..MaxSubtasks] : New(tasks_per_operator)

\* a coordinator for any parallelism of op_A
InitOperator ==
    /\ InitTable
    /\ \E subtasks \in 1..MaxSubtasks :
            New([o \in Operators |-> IF o = "op_A" THEN subtasks ELSE 1])

\* a worker's empty table; the coordinator of the job is not driven
InitWorker ==
    /\ InitTable
    /\ New([o \in Operators |-> 1])

\* ------------------------------------------- calls made on the cache alone
CacheReady == ~cache_panicked /\ cache_calls < MaxCacheOps

cache_insert(timestamp, key, value) ==
    /\ CacheReady
    /\ SetCache(CacheInsert(cache, timestamp, key, value))
    /\ cache_calls' = cache_calls + 1
    /\ UNCHANGED <<checkpointVars, restore, cache_panicked, facadeVars>>

cache_remove_key(key) ==
    /\ CacheReady
    /\ SetCache(CacheRemoveKey(cache, key))
    /\ cache_calls' = cache_calls + 1
    /\ UNCHANGED <<checkpointVars, restore, cache_panicked, facadeVars>>

cache_remove_value(timestamp, key, value) ==
    /\ CacheReady
    /\ SetCache(CacheRemoveValue(cache, timestamp, key, value))
    /\ cache_calls' = cache_calls + 1
    /\ UNCHANGED <<checkpointVars, restore, cache_panicked, facadeVars>>

\* The loop visits keys_to_remove in the HashSet's order; when an unwrap()
\* fails, any set of the other keys may already have been processed.
ExpireStep(time) ==
    LET keys == KeysToRemove(cache, time)
        bad == {k \in keys : ExpirePanics(cache, k)}
    IN  IF bad = {}
        THEN /\ SetCache(ExpireKeys(cache, keys, time))
             /\ UNCHANGED cache_panicked
        ELSE /\ \E processed \in SUBSET (keys \ bad) :
                    SetCache(ExpireKeys(cache, processed, time))
             /\ cache_panicked' = TRUE

cache_expire_entries_before(time) ==
    /\ CacheReady
    /\ ExpireStep(time)
    /\ cache_calls' = cache_calls + 1
    /\ UNCHANGED <<checkpointVars, restore, facadeVars>>

NextCache ==
    \/ \E t \in Times, k \in Keys, v \in Vals : cache_insert(t, k, v)
    \/ \E k \in Keys : cache_remove_key(k)
    \/ \E t \in Times, k \in Keys, v \in Vals : cache_remove_value(t, k, v)
    \/ \E t \in Instants : cache_expire_entries_before(t)

SpecCache == InitWorker /\ [][NextCache]_vars

\* ------------------------------------------------ KeyTimeMultiMap (facade)
\* Every call awaits the backing store, so each is two steps: the part up
\* to the await and the part after it.
FacadeIdle == pc = "idle" /\ ~cache_panicked

insert_log(timestamp, key, value) ==
    /\ FacadeIdle
    /\ Len(log) < MaxLog
    /\ log' = Append(log, write_data_tuple(timestamp, key, value))
    /\ pc' = "insert"
    /\ args' = [NoArgs EXCEPT !.timestamp = timestamp, !.key = key, !.value = value]
    /\ UNCHANGED <<checkpointVars, restore, cacheVars, table_size_gauge>>

insert_cache ==
    /\ pc = "insert"
    /\ SetCache(CacheInsert(cache, args.timestamp, args.key, args.value))
    /\ table_size_gauge' = Cardinality(DOMAIN values')
    /\ pc' = "idle"
    /\ args' = NoArgs
    /\ UNCHANGED <<checkpointVars, restore, log, cache_calls, cache_panicked>>

delete_key_log(key) ==
    /\ FacadeIdle
    /\ Len(log) < MaxLog
    /\ log' = Append(log, store_delete_key(key))
    /\ pc' = "delete_key"
    /\ args' = [NoArgs EXCEPT !.key = key]
    /\ UNCHANGED <<checkpointVars, restore, cacheVars, table_size_gauge>>

delete_key_cache ==
    /\ pc = "delete_key"
    /\ SetCache(CacheRemoveKey(cache, args.key))
    /\ pc' = "idle"
    /\ args' = NoArgs
    /\ UNCHANGED <<checkpointVars, restore, log, table_size_gauge, cache_calls, cache_panicked>>

delete_value_log(timestamp, key, value) ==
    /\ FacadeIdle
    /\ Len(log) < MaxLog
    /\ log' = Append(log, delete_data_value(timestamp, key, value))
    /\ pc' = "delete_value"
    /\ args' = [NoArgs EXCEPT !.timestamp = timestamp, !.key = key, !.value = value]
    /\ UNCHANGED <<checkpointVars, restore, cacheVars, table_size_gauge>>

delete_value_cache ==
    /\ pc = "delete_value"
    /\ SetCache(CacheRemoveValue(cache, args.timestamp, args.key, args.value))
    /\ pc' = "idle"
    /\ args' = NoArgs
    /\ UNCHANGED <<checkpointVars, restore, log, table_size_gauge, cache_calls, cache_panicked>>

\* the record appended before the await instead of after it
clear_time_range_cache_LogFirst(key, start, end) ==
    /\ FacadeIdle
    /\ Len(log) < MaxLog
    /\ log' = Append(log, delete_time_range(key, start, end))
    /\ pc' = "clear_time_range"
    /\ args' = [NoArgs EXCEPT !.key = key, !.start = start, !.end = end]
    /\ UNCHANGED <<checkpointVars, restore, cacheVars, table_size_gauge>>

clear_time_range_cache(key, start, end) ==
    /\ FacadeIdle
    /\ Len(log) < MaxLog
    /\ SetCache(CacheClearTimeRange(cache, key, start, end))
    /\ pc' = "clear_time_range"
    /\ args' = [NoArgs EXCEPT !.key = key, !.start = start, !.end = end]
    /\ UNCHANGED <<checkpointVars, restore, log, table_size_gauge, cache_calls, cache_panicked>>

clear_time_range_log ==
    /\ pc = "clear_time_range"
    /\ log' = Append(log, delete_time_range(args.key, args.start, args.end))
    /\ pc' = "idle"
    /\ args' = NoArgs
    /\ UNCHANGED <<checkpointVars, restore, cacheVars, table_size_gauge>>

expire_entries_before_cache(expiration_time) ==
    /\ FacadeIdle
    /\ Len(log) + Cardinality(KeysToRemove(cache, expiration_time)) <= MaxLog
    /\ ExpireStep(expiration_time)
    /\ IF cache_panicked' THEN UNCHANGED <<pc, args>>
       ELSE /\ pc' = "expire_entries_before"
            /\ args' = [NoArgs EXCEPT !.end = expiration_time,
                                      !.keys = KeysToRemove(cache, expiration_time)]
    /\ UNCHANGED <<checkpointVars, restore, log, table_size_gauge, cache_calls>>

\* one iteration of "for mut key in keys", in the HashSet's order
expire_entries_before_log ==
    /\ pc = "expire_entries_before"
    /\ \E key \in args.keys :
        /\ log' = Append(log, delete_time_range(key, UNIX_EPOCH, args.end))
        /\ args' = [args EXCEPT !.keys = args.keys \ {key}]
    /\ UNCHANGED <<checkpointVars, restore, pc, cacheVars, table_size_gauge>>

expire_entries_before_return ==
    /\ pc = "expire_entries_before"
    /\ args.keys = {}
    /\ pc' = "idle"
    /\ args' = NoArgs
    /\ UNCHANGED <<checkpointVars, restore, log, cacheVars, table_size_gauge>>

NextFacade ==
    \/ \E t \in Times, k \in Keys, v \in Vals : insert_log(t, k, v)
    \/ insert_cache
    \/ \E k \in Keys : delete_key_log(k)
    \/ delete_key_cache
    \/ \E t \in Times, k \in Keys, v \in Vals : delete_value_log(t, k, v)
    \/ delete_value_cache
    \/ \E k \in Keys, r \in ClearRanges : clear_time_range_cache(k, r[1], r[2])
    \/ clear_time_range_log
    \/ \E t \in Instants : expire_entries_before_cache(t)
    \/ expire_entries_before_log
    \/ expire_entries_before_return

SpecFacade == InitWorker /\ [][NextFacade]_vars

\* ------------------------------------------------- restore from the log
\* the backing store holds one more tuple of the table at the checkpoint
store_tuple(tuple) ==
    /\ restore.status = "none"
    /\ Len(log) < MaxLog
    /\ log' = Append(log, tuple)
    /\ UNCHANGED <<checkpointVars, cacheVars, pc, args, table_size_gauge, restore>>

\* KeyTimeMultiMapCache::from_checkpoint over the tuples of the store
from_checkpoint(min_watermark, retention_micros) ==
    /\ restore.status = "none"
    /\ \E min_valid_time \in MinValidTimes(min_watermark, retention_micros) :
        LET call == [status |-> "ok", min_watermark |-> min_watermark,
                     retention_micros |-> retention_micros,
                     min_valid_time |-> min_valid_time]
        IN  IF min_valid_time = None
            THEN /\ restore' = [call EXCEPT !.status = "panic"]
                 /\ UNCHANGED <<values, expirations>>
            ELSE IF FromCheckpointPanics(log, Unwrap(min_valid_time))
            THEN /\ restore' = [call EXCEPT !.status = "panic"]
                 /\ UNCHANGED <<values, expirations>>
            ELSE /\ restore' = call
                 /\ SetCache(FromCheckpoint(log, Unwrap(min_valid_time)))
    /\ UNCHANGED <<checkpointVars, facadeVars, cache_calls, cache_panicked>>

NextRestore ==
    \/ \E tuple \in RestoreTuples : store_tuple(tuple)
    \/ \E w \in RestoreWatermarks, r \in Retentions : from_checkpoint(w, r)

SpecRestore == InitWorker /\ [][NextRestore]_vars

\* ------------------------------------------------------- CheckpointState
done == operators = operators_checkpointed

CoordinatorReady == result # "panic" /\ calls < MaxCalls

Called(call, operator_id, has_metadata, event_type, subtask_index, time) ==
    /\ last_call' = [call |-> call, operator_id |-> operator_id,
                     has_metadata |-> has_metadata, event_type |-> event_type,
                     subtask_index |-> subtask_index, time |-> time]
    /\ calls' = calls + 1

\* a call finish_subtask accepted, as the subtask sent it
Acknowledge(operator_id, c) ==
    /\ reported' = [reported EXCEPT ![operator_id][c.subtask_index] = @ + 1]
    /\ acked' = [acked EXCEPT
                    ![operator_id].start_times = @ \cup {c.start_time},
                    ![operator_id].finish_times = @ \cup {c.finish_time},
                    ![operator_id].watermarks = @ \cup {c.watermark}]

\* c.metadata is an Option; the debug! record of line 225 unwraps it when
\* the callsite is enabled, which the subscriber decides at run time
checkpoint_finished(c) ==
    /\ CoordinatorReady
    /\ Called("checkpoint_finished", c.operator_id, c.metadata # None, "", 0, 0)
    /\ \E debug_enabled \in BOOLEAN :
        IF debug_enabled /\ c.metadata = None
        THEN /\ result' = "panic"
             /\ UNCHANGED <<operators, operators_checkpointed, operator_state,
                            operator_details, store, reported, acked>>
        ELSE IF c.operator_id \notin DOMAIN operator_state \/ c.metadata = None
        THEN /\ result' = "err"
             /\ UNCHANGED <<operators, operators_checkpointed, operator_state,
                            operator_details, store, reported, acked>>
        ELSE LET os == operator_state[c.operator_id]
                 m == Unwrap(c.metadata)
             IN IF FinishSubtaskPanics(os, m)
                THEN /\ \E done_tables \in SUBSET
                            {t \in DOMAIN m.table_metadata :
                                ~TableConfigMissing(os.table_state, m, t)} :
                            operator_state' = [operator_state EXCEPT ![c.operator_id] =
                                                  FinishSubtaskPartial(os, m, done_tables)]
                     /\ result' = "panic"
                     /\ UNCHANGED <<operators, operators_checkpointed,
                                    operator_details, store, reported, acked>>
                ELSE LET fs == FinishSubtask(os, m) IN
                     /\ operator_state' = [operator_state EXCEPT ![c.operator_id] = fs.state]
                     /\ IF fs.returned # None
                        THEN /\ operators_checkpointed' = operators_checkpointed + 1
                             /\ store' = Append(store,
                                    OperatorCheckpointMetadata(c.operator_id, fs.state,
                                                               Unwrap(fs.returned)))
                        ELSE UNCHANGED <<operators_checkpointed, store>>
                     /\ Acknowledge(c.operator_id, m)
                     /\ result' = "ok"
                     /\ UNCHANGED <<operators, operator_details>>
    /\ UNCHANGED tableVars

checkpoint_event(c) ==
    /\ CoordinatorReady
    /\ Called("checkpoint_event", c.operator_id, FALSE, c.event_type,
              c.subtask_index, c.time)
    /\ IF c.event_type = "FinishedCommit"
       THEN /\ result' = "err"
            /\ UNCHANGED operator_details
       ELSE /\ result' = "ok"
            /\ operator_details' = AppendUiEvent(operator_details, c)
    /\ UNCHANGED <<operators, operators_checkpointed, operator_state, store,
                   reported, acked>>
    /\ UNCHANGED tableVars

\* the requests of a valid epoch: a known operator, metadata present, the
\* config of every reported table present, a declared subtask that has not
\* reported yet
ValidRequest(c) ==
    /\ c.operator_id \in DOMAIN operator_state
    /\ c.metadata # None
    /\ Unwrap(c.metadata).subtask_index < operator_state[c.operator_id].subtasks
    /\ reported[c.operator_id][Unwrap(c.metadata).subtask_index] = 0
    /\ \A t \in DOMAIN Unwrap(c.metadata).table_metadata :
            t \in DOMAIN Unwrap(c.metadata).table_configs

CompletedReqs ==
    {CompletedReq(o, Some(m)) : o \in Operators, m \in SomeMetadata}
    \cup {CompletedReq(UnknownOperator, Some(MetadataOf(0, NoTables))),
          CompletedReq(UnknownOperator, None)}
    \cup {CompletedReq(o, None) : o \in Operators}

EventReqs ==
    {EventReq("op_A", i, t, e) : i \in EventSubtasks, t \in EventTimes, e \in EventTypes}

\* any calls, duplicate, surplus and malformed ones included
Next ==
    \/ \E c \in CompletedReqs : checkpoint_finished(c)
    \/ \E c \in EventReqs : checkpoint_event(c)

Spec == Init /\ [][Next]_vars

\* every subtask reports at most once
NextValid ==
    \E c \in CompletedReqs : ValidRequest(c) /\ checkpoint_finished(c)

SpecValid == Init /\ [][NextValid]_vars

\* one operator driven with every time and watermark of the input domains
NextOperator ==
    \E m \in AllMetadata : checkpoint_finished(CompletedReq("op_A", Some(m)))

SpecOperator == InitOperator /\ [][NextOperator]_vars

\* ------------------------------------------------------------ invariant I3
BucketsOf(c, key) == {t \in DOMAIN c.expirations : key \in c.expirations[t]}

I3(c) ==
    \A k \in DOMAIN c.values :
        DOMAIN c.values[k] # {} =>
            BucketsOf(c, k) = {MinOf(DOMAIN c.values[k])}

\* C1: after any sequence of cache operations insert, remove_key,
\* remove_value and expire_entries_before, every key with a non-empty
\* timestamp map is in exactly one expirations bucket, the one of its
\* smallest timestamp.
C1_CacheInvariantI3 == I3(cache)

\* C2: at every facade operation boundary, replaying the log with the
\* rules of from_checkpoint and no retention cut-off yields, for every key,
\* the same (timestamp, value) tuples as the live cache holds.
C2_CacheLogAgreement ==
    (pc = "idle" /\ ~cache_panicked) =>
        \A k \in Keys :
            GetAllValuesWithTimestamps(cache, k)
                = GetAllValuesWithTimestamps(FromCheckpoint(log, UNIX_EPOCH), k)

\* C3: after expire_entries_before(t), get_time_range(k, [UNIX_EPOCH, t)) is
\* empty for every key and get_time_range(k, [t, oo)) returns what it
\* returned before the call.
C3_ExpireRangeEquivalence ==
    [][(pc = "idle" /\ pc' = "expire_entries_before") =>
          \A k \in Keys :
              /\ GetTimeRange(cache', k, UNIX_EPOCH, args'.end) = << >>
              /\ GetTimeRange(cache', k, args'.end, FarFuture)
                    = GetTimeRange(cache, k, args'.end, FarFuture)]_vars

\* ------------------------------------------------ coordinator properties
\* every declared subtask of the operator has reported
AllReported(o) ==
    \A i \in SubtaskIndexes : i < operator_state[o].subtasks => reported[o][i] >= 1

Duplicated(o) == \E i \in SubtaskIndexes : reported[o][i] >= 2

OperatorComplete(o) ==
    operator_state[o].subtasks_checkpointed = operator_state[o].subtasks

RecordsOf(o) == {i \in 1..Len(store) : store[i].operator_id = o}

\* C4: after valid checkpoint_finished calls, operators_checkpointed is the
\* number of operators whose every declared subtask has reported, it never
\* decreases, and done() holds exactly when every operator has
\* subtasks_checkpointed = subtasks.
C4_CompletionMonotonicity ==
    /\ [](/\ operators_checkpointed = Cardinality({o \in Operators : AllReported(o)})
          /\ done <=> \A o \in Operators : OperatorComplete(o))
    /\ [][operators_checkpointed' >= operators_checkpointed]_vars

C4_Witness ==
    /\ operators_checkpointed = 1
    /\ \E o \in Operators : reported[o][0] = 1 /\ ~AllReported(o)

\* C5: for any calls, duplicate and surplus acknowledgements included,
\* 0 <= operators_checkpointed <= operators, every operator is counted and
\* its metadata written at most once, and done() once true stays true.
C5_CounterBounds ==
    /\ [](/\ 0 <= operators_checkpointed
          /\ operators_checkpointed <= operators
          /\ operators_checkpointed = Len(store)
          /\ \A o \in Operators : Cardinality(RecordsOf(o)) <= 1)
    /\ [][done => done']_vars

C5_Witness ==
    /\ done
    /\ \E o \in Operators :
            operator_state[o].subtasks_checkpointed > operator_state[o].subtasks

\* C6: in the metadata written when an operator completes, min_watermark and
\* max_watermark are both None iff an acknowledged subtask reported None,
\* and are otherwise the minimum and the maximum of the reported watermarks.
C6_WatermarkAggregation ==
    [][Len(store') > Len(store) =>
          LET r == store'[Len(store')]
              ws == acked'[r.operator_id].watermarks
          IN IF None \in ws
             THEN r.min_watermark = None /\ r.max_watermark = None
             ELSE /\ r.min_watermark = Some(MinOf({Unwrap(w) : w \in ws}))
                  /\ r.max_watermark = Some(MaxOf({Unwrap(w) : w \in ws}))]_vars

C6_Witness ==
    \E i \in 1..Len(store) :
        store[i].min_watermark = Some(1) /\ store[i].max_watermark = Some(2)

\* C7: start_time of an operator is the minimum start_time and finish_time
\* the maximum finish_time of the acknowledged subtasks, both unset before
\* the first acknowledgement, whatever the order of arrival.
C7_TimeBounds ==
    result # "panic" =>
        \A o \in Operators :
            /\ operator_state[o].start_time =
                   IF acked[o].start_times = {} THEN None
                   ELSE Some(from_micros(MinOf(acked[o].start_times)))
            /\ operator_state[o].finish_time =
                   IF acked[o].finish_times = {} THEN None
                   ELSE Some(from_micros(MaxOf(acked[o].finish_times)))

C7_Witness ==
    /\ result = "ok"
    /\ acked["op_A"].start_times = StartTimes
    /\ acked["op_A"].finish_times = FinishTimes

\* C8 as stated: whenever a (operator_id, subtask_index) was submitted
\* twice, subtasks_checkpointed of the operator exceeds subtasks.
C8_DuplicateExceeds ==
    \A o \in Operators :
        Duplicated(o) =>
            operator_state[o].subtasks_checkpointed > operator_state[o].subtasks

\* C8 amended: when a (operator_id, subtask_index) was submitted twice and
\* every declared subtask of the operator has reported, subtasks_checkpointed
\* of the operator exceeds subtasks.
C8_DuplicateExceedsOnceAllReported ==
    \A o \in Operators :
        (Duplicated(o) /\ AllReported(o)) =>
            operator_state[o].subtasks_checkpointed > operator_state[o].subtasks

C8_Witness ==
    \E o \in Operators :
        /\ operator_state[o].subtasks = 2
        /\ Duplicated(o)
        /\ AllReported(o)

\* C9: when every subtask reports once, the metadata of an operator is
\* written in the call that delivers its last outstanding subtask and in no
\* earlier call, and done() holds only once every operator's metadata is
\* written.
C9_FlushOrdering ==
    /\ [](/\ \A o \in Operators : (RecordsOf(o) # {}) <=> AllReported(o)
          /\ done => \A o \in Operators : RecordsOf(o) # {})
    /\ [][\A o \in Operators :
            (RecordsOf(o)' # {} /\ RecordsOf(o) = {}) =>
                /\ last_call'.operator_id = o
                /\ ~AllReported(o)
                /\ AllReported(o)']_vars

C9_Witness ==
    /\ done
    /\ \E o \in Operators : operator_state[o].subtasks = 2
    /\ Len(store) = operators

\* C10: checkpoint_finished for an unknown operator or without metadata
\* returns an error, without aborting, and leaves the CheckpointState as it
\* was.
C10_ErrorLeavesStateUnchanged ==
    [][(/\ calls' = calls + 1
        /\ last_call'.call = "checkpoint_finished"
        /\ (last_call'.operator_id \notin Operators \/ ~last_call'.has_metadata)) =>
            /\ result' = "err"
            /\ UNCHANGED <<operators, operators_checkpointed, operator_state,
                           operator_details, store>>]_vars

\* C11: checkpoint_event fails exactly when the event type is FinishedCommit
\* and then leaves operator_details as it was; any other event succeeds and
\* appends one UI event to the events of the task (operator_id,
\* subtask_index), creating the operator and the task entry, with start_time
\* the time of the event, only when they are seen for the first time; no call
\* changes operator_state, operators_checkpointed or done().
C11_CheckpointEvent ==
    [][(calls' = calls + 1 /\ last_call'.call = "checkpoint_event") =>
          LET o == last_call'.operator_id
              i == last_call'.subtask_index
              t == last_call'.time
              e == last_call'.event_type
              known == o \in DOMAIN operator_details
              old_tasks == IF known THEN operator_details[o].tasks ELSE EmptyMap
              seen == i \in DOMAIN old_tasks
              old_events == IF seen THEN old_tasks[i].events ELSE << >>
          IN  /\ result' = IF e = "FinishedCommit" THEN "err" ELSE "ok"
              /\ e = "FinishedCommit" => operator_details' = operator_details
              /\ e # "FinishedCommit" =>
                    /\ DOMAIN operator_details' = DOMAIN operator_details \cup {o}
                    /\ \A p \in DOMAIN operator_details :
                            p # o => operator_details'[p] = operator_details[p]
                    /\ operator_details'[o].start_time =
                            IF known THEN operator_details[o].start_time ELSE t
                    /\ DOMAIN operator_details'[o].tasks = DOMAIN old_tasks \cup {i}
                    /\ \A j \in DOMAIN old_tasks :
                            j # i => operator_details'[o].tasks[j] = old_tasks[j]
                    /\ operator_details'[o].tasks[i].start_time =
                            IF seen THEN old_tasks[i].start_time ELSE t
                    /\ Len(operator_details'[o].tasks[i].events) = Len(old_events) + 1
                    /\ SubSeq(operator_details'[o].tasks[i].events, 1, Len(old_events))
                            = old_events
                    /\ operator_details'[o].tasks[i].events[Len(old_events) + 1].time = t
              /\ UNCHANGED <<operator_state, operators_checkpointed>>
              /\ done' = done]_vars

\* an event for a task already seen, at a later time than its first event
C11_Witness ==
    /\ last_call.call = "checkpoint_event"
    /\ result = "ok"
    /\ "op_A" \in DOMAIN operator_details
    /\ \E i \in DOMAIN operator_details["op_A"].tasks :
            LET task == operator_details["op_A"].tasks[i]
            IN  /\ Len(task.events) = 2
                /\ task.start_time = 1
                /\ task.events[2].time = 2
                /\ last_call.subtask_index = i

\* ------------------------------------------------------ restore properties
\* the tuples of the log with timestamp at or after min_valid_time
RECURSIVE KeptTuples(_, _)
KeptTuples(tuples, min_valid_time) ==
    IF tuples = << >> THEN << >>
    ELSE IF Head(tuples).timestamp < min_valid_time
         THEN KeptTuples(Tail(tuples), min_valid_time)
         ELSE <<Head(tuples)>> \o KeptTuples(Tail(tuples), min_valid_time)

SupportedLog(tuples) ==
    \A i \in 1..Len(tuples) : tuples[i].operation # "DeleteTimeKey"

\* C12: from_checkpoint skips exactly the tuples with timestamp strictly
\* below min_valid_time, which is min_watermark - retention_micros when the
\* operator metadata has a min_watermark and UNIX_EPOCH otherwise; a tuple
\* at min_valid_time is replayed.
C12_RetentionCutoff ==
    (restore.status # "none" /\ SupportedLog(log)) =>
        LET cutoff == IF restore.min_watermark = None THEN UNIX_EPOCH
                      ELSE from_micros(Unwrap(restore.min_watermark)
                                          - restore.retention_micros)
        IN  /\ restore.status = "ok"
            /\ restore.min_valid_time = Some(cutoff)
            /\ values = Replay(EmptyMap, KeptTuples(log, cutoff), UNIX_EPOCH)

HasTime(vals, key, timestamp) ==
    key \in DOMAIN vals /\ timestamp \in DOMAIN vals[key]

\* the list stored for (key, timestamp), empty when there is none
ListAt(vals, key, timestamp) ==
    IF HasTime(vals, key, timestamp) THEN vals[key][timestamp] ELSE << >>

\* seq without its element at position
Without(seq, position) ==
    [i \in 1..(Len(seq) - 1) |-> IF i < position THEN seq[i] ELSE seq[i + 1]]

\* C13: from_checkpoint applies the tuples in log order: the restore of a
\* log extended by one tuple is the restore of the log with that tuple
\* applied last. A DeleteValue(k, t, v) removes the first occurrence of v
\* from the list at (k, t) and nothing else, and changes nothing when k, t or
\* v is absent; an Insert appends to the list at its (k, t), whatever deletes
\* precede it.
C13_ReplayOrderAndMultiplicity ==
    /\ []((restore.status = "ok" /\ restore.min_valid_time = Some(UNIX_EPOCH)) =>
              values = Replay(EmptyMap, log, UNIX_EPOCH))
    /\ [][(restore.status = "none" /\ Len(log') = Len(log) + 1) =>
             LET tuple == log'[Len(log')]
                 before == Replay(EmptyMap, log, UNIX_EPOCH)
                 after == Replay(EmptyMap, log', UNIX_EPOCH)
                 others_kept(k, t) ==
                     \A k2 \in Keys, t2 \in Times :
                         <<k2, t2>> # <<k, t>> =>
                             /\ ListAt(after, k2, t2) = ListAt(before, k2, t2)
                             /\ HasTime(after, k2, t2) = HasTime(before, k2, t2)
             IN  /\ tuple.operation = "Insert" =>
                       /\ after[tuple.key][tuple.timestamp] =
                             Append(ListAt(before, tuple.key, tuple.timestamp), tuple.value)
                       /\ others_kept(tuple.key, tuple.timestamp)
                 /\ tuple.operation = "DeleteValue" =>
                       LET k == decode(tuple.op_key)
                           v == decode(tuple.op_value)
                           t == tuple.op_timestamp
                           list == ListAt(before, k, t)
                       IN  IF \E p \in 1..Len(list) : list[p] = v
                           THEN /\ \E p \in 1..Len(list) :
                                       /\ list[p] = v
                                       /\ \A j \in 1..(p - 1) : list[j] # v
                                       /\ after[k][t] = Without(list, p)
                                /\ others_kept(k, t)
                           ELSE after = before]_vars

\* the restore of Insert a, Insert a, DeleteValue a holds one a
C13_Witness ==
    /\ restore.status = "ok"
    /\ restore.min_valid_time = Some(UNIX_EPOCH)
    /\ Len(log) = 3
    /\ log[1] = log[2]
    /\ log[1].operation = "Insert"
    /\ log[3] = delete_data_value(log[1].timestamp, log[1].key, log[1].value)
    /\ values[log[1].key][log[1].timestamp] = <<log[1].value>>

\* ------------------------------------------------------ facade properties
LogFirstCalls == {"insert", "delete_key", "delete_value"}

\* C14: insert, delete_key and delete_value append their record to the log
\* before the cache is mutated, clear_time_range mutates the cache before it
\* appends its record; each of these calls appends exactly one record, at
\* the end of the log, so records are in call order.
C14_WriteThroughOrdering ==
    [][/\ (pc = "idle" /\ pc' \in LogFirstCalls) =>
            LET record == log'[Len(log')]
            IN  /\ Len(log') = Len(log) + 1
                /\ SubSeq(log', 1, Len(log)) = log
                /\ values' = values /\ expirations' = expirations
                /\ pc' = "insert" =>
                        /\ record.operation = "Insert"
                        /\ <<record.timestamp, record.key, record.value>>
                              = <<args'.timestamp, args'.key, args'.value>>
                /\ pc' = "delete_key" =>
                        /\ record.operation = "DeleteKey"
                        /\ decode(record.op_key) = args'.key
                /\ pc' = "delete_value" =>
                        /\ record.operation = "DeleteValue"
                        /\ <<record.op_timestamp, decode(record.op_key),
                             decode(record.op_value)>>
                              = <<args'.timestamp, args'.key, args'.value>>
       /\ (pc \in LogFirstCalls /\ pc' # pc) => (pc' = "idle" /\ log' = log)
       /\ (pc = "idle" /\ pc' = "clear_time_range") => log' = log
       /\ (pc = "clear_time_range" /\ pc' # pc) =>
            LET record == log'[Len(log')]
            IN  /\ pc' = "idle"
                /\ Len(log') = Len(log) + 1
                /\ SubSeq(log', 1, Len(log)) = log
                /\ values' = values /\ expirations' = expirations
                /\ record.operation = "DeleteTimeRange"
                /\ <<record.key, record.start, record.end>>
                      = <<args.key, args.start, args.end>>]_vars

\* the record of an insert is in the log, after that of a clear_time_range
\* that emptied the key, and the cache does not hold the value yet
C14_Witness ==
    /\ pc = "insert"
    /\ Len(log) = 3
    /\ log[1].operation = "Insert"
    /\ log[2].operation = "DeleteTimeRange"
    /\ log[3] = write_data_tuple(args.timestamp, args.key, args.value)
    /\ args.key = log[2].key
    /\ args.key \in DOMAIN values
    /\ DOMAIN values[args.key] = {}

\* C15: get_time_range(k, [start, end)) returns, for every key and every
\* start and end (start = end and start > end included, where it is empty),
\* the values stored under the timestamps ts with start <= ts < end, in
\* ascending timestamp order and in insertion order within a timestamp, and
\* the empty sequence for an unknown key.
C15_GetTimeRange ==
    \A k \in Keys, start \in Instants, end \in Instants :
        LET stored == GetAllValuesWithTimestamps(cache, k)
            in_range(pair) == start <= pair[1] /\ pair[1] < end
            expected == SelectSeq(stored, in_range)
        IN  /\ ~GetTimeRangePanics(cache, k, start, end)
            /\ GetTimeRange(cache, k, start, end)
                  = [i \in 1..Len(expected) |-> expected[i][2]]

\* C16: remove_value(t, k, v) drops only the first element equal to v from
\* values[k][t]: of n >= 1 copies n - 1 remain, the other values and their
\* order are unchanged, an emptied list stays under its timestamp,
\* expirations is unchanged, and nothing changes when k or t is absent.
C16_RemoveValueFirstOnly ==
    [][(pc = "delete_value" /\ pc' = "idle") =>
          LET list == ListAt(values, args.key, args.timestamp)
          IN  /\ expirations' = expirations
              /\ IF \E p \in 1..Len(list) : list[p] = args.value
                 THEN \E p \in 1..Len(list) :
                        /\ list[p] = args.value
                        /\ \A j \in 1..(p - 1) : list[j] # args.value
                        /\ values' = Put(values, args.key,
                                         Put(values[args.key], args.timestamp,
                                             Without(list, p)))
                 ELSE values' = values]_vars

\* C17: expire_entries_before(t) returns the union of the expirations
\* buckets with timestamp < t and leaves no bucket with timestamp < t; a key
\* with timestamps on both sides of t keeps its timestamps >= t and is
\* registered under the smallest of them.
C17_ExpireBuckets ==
    [][(pc = "idle" /\ pc' = "expire_entries_before") =>
          LET t == args'.end
          IN  /\ args'.keys = UNION {expirations[s] : s \in {x \in DOMAIN expirations : x < t}}
              /\ \A s \in DOMAIN expirations' : s >= t
              /\ \A k \in args'.keys :
                    LET kept == {ts \in DOMAIN values[k] : ts >= t}
                    IN  kept # {} =>
                            /\ DOMAIN values'[k] = kept
                            /\ BucketsOf(cache', k) = {MinOf(kept)}]_vars

\* C18: after clear_time_range(k, [start, end)) removed the timestamps of k
\* in the range, k is in exactly one expirations bucket, that of its new
\* smallest timestamp, when it has timestamps left, and in no bucket when it
\* has none; the same holds after a later insert for k.
C18_ClearTimeRangeKeepsI3 ==
    [][/\ (pc = "idle" /\ pc' = "clear_time_range") =>
            LET k == args'.key
            IN  IF k \in DOMAIN values' /\ DOMAIN values'[k] # {}
                THEN BucketsOf(cache', k) = {MinOf(DOMAIN values'[k])}
                ELSE BucketsOf(cache', k) = {}
       /\ (/\ pc = "insert" /\ pc' = "idle"
           /\ \E i \in 1..Len(log) :
                log[i].operation = "DeleteTimeRange" /\ log[i].key = args.key) =>
            BucketsOf(cache', args.key) = {MinOf(DOMAIN values'[args.key])}]_vars

\* C19: once the call that made subtasks_checkpointed equal subtasks drained
\* table_state, table_state of the operator is empty in every later state,
\* whatever checkpoint_finished and checkpoint_event calls follow.
C19_TableStateStaysDrained ==
    result # "panic" =>
        \A o \in Operators :
            operator_state[o].subtasks_checkpointed >= operator_state[o].subtasks =>
                operator_state[o].table_state = EmptyMap

\* C20: for any log of Insert, DeleteKey, DeleteValue and DeleteTimeRange
\* tuples and any min_valid_time, from_checkpoint returns a cache in which no
\* key has an empty timestamp map and every key of values is in exactly one
\* expirations bucket, that of its smallest timestamp, and expirations holds
\* no other key: expirations is a function of the final values.
C20_RestoredCacheWellFormed ==
    (restore.status # "none" /\ restore.min_valid_time # None /\ SupportedLog(log)) =>
        /\ restore.status = "ok"
        /\ \A k \in DOMAIN values : DOMAIN values[k] # {}
        /\ \A k \in DOMAIN values : BucketsOf(cache, k) = {MinOf(DOMAIN values[k])}
        /\ \A t \in DOMAIN expirations : expirations[t] \subseteq DOMAIN values

\* two keys restored into different buckets from a log with a range delete
C20_Witness ==
    /\ restore.status = "ok"
    /\ DOMAIN values = Keys
    /\ Cardinality(DOMAIN expirations) = 2
    /\ Cardinality(DOMAIN values["k1"]) = 1
    /\ \E i \in 1..Len(log) : log[i].operation = "DeleteTimeRange"

\* C21: after any sequence of facade operations, every key in an
\* expirations bucket is in values with a non-empty timestamp map, so the
\* lookups of expire_entries_before (the entry of the key, its last
\* timestamp) never fail.
C21_ExpireNeverFails ==
    /\ ~cache_panicked
    /\ \A t \in DOMAIN expirations :
            \A k \in expirations[t] :
                k \in DOMAIN values /\ DOMAIN values[k] # {}

\* C22: for every min_watermark and retention_micros the subtraction of
\* from_checkpoint neither aborts the restore nor wraps around, and when
\* min_watermark < retention_micros no tuple of the log is skipped.
C22_CutoffNeverUnderflows ==
    (restore.status # "none" /\ restore.min_watermark # None /\ SupportedLog(log)) =>
        /\ restore.status = "ok"
        /\ restore.min_valid_time # None
        /\ Unwrap(restore.min_valid_time) <= from_micros(Unwrap(restore.min_watermark))
        /\ Unwrap(restore.min_watermark) < restore.retention_micros =>
                values = Replay(EmptyMap, log, UNIX_EPOCH)

====
